---- MODULE Spec2Model ----
(***************************************************************************)
(* Model of GetStockData_01_9.py: the per-ticker signal computation        *)
(* (calculate_streak, get_scalar, analyze_single_stock) and the batch run  *)
(* of main (load_tickers, the ticker loop, save_to_s3).                    *)
(*                                                                         *)
(* Three specifications share the module:                                  *)
(*   SpecStreak  calculate_streak applied to a bounded difference series   *)
(*   SpecStock   analyze_single_stock applied to a bounded daily frame     *)
(*   Spec        main: load the ticker list, loop over it, upload          *)
(*                                                                         *)
(* Numbers.  Prices are held in units of 1/PriceScale, so that a close     *)
(* with a fractional part is representable with integers.  A rolling mean  *)
(* is held as the pair (sum, count) of its window; the difference          *)
(* close - mean is held multiplied by the (positive) count, which keeps    *)
(* its sign and its zero.  Quotients are exact rationals: the model does   *)
(* not reproduce binary floating-point rounding.                           *)
(***************************************************************************)
EXTENDS Integers, Sequences, FiniteSets, TLC

\* ------------------------------------------------------------------ bounds
MaxDiffLen == 5
MaxBars == 6
MaxMonths == 2
PriceScale == 4
BatchBars == 3
MaxTickers == 3

\* window lengths of the moving averages (program constants)
WindowMonth20 == 20
WindowDay7 == 7
WindowDay20 == 20
\* number of trailing bars analyze_single_stock reads with iloc[-1..-3]
TailBars == 3

DiffValues == {-2, -1, 0, 1, 2}
CloseValues == {PriceScale - 1, PriceScale + 1}
VolumeValues == {0, 1, 3}

VARIABLES
    series, streak, computed,          \* SpecStreak
    df, result, analyzed,              \* SpecStock
    pc, file, df_tickers, idx, all_results, fetched, exception,
    saveCalls, putCalls                \* Spec (main)

streakVars == <<series, streak, computed>>
stockVars == <<df, result, analyzed>>
mainVars == <<pc, file, df_tickers, idx, all_results, fetched, exception,
              saveCalls, putCalls>>
vars == <<series, streak, computed, df, result, analyzed,
          pc, file, df_tickers, idx, all_results, fetched, exception,
          saveCalls, putCalls>>

\* ------------------------------------------------------------- helpers
Abs(x) == IF x < 0 THEN -x ELSE x

Last(s) == s[Len(s)]

\* a function over 1..n as an explicit sequence (same value, evaluated once)
AsSeq(f) == SubSeq(f, 1, Len(f))

SeqsUpTo(S, lo, hi) == UNION {[1..n -> S] : n \in lo..hi}

\* ---------------------------------------------------- calculate_streak
\* sign = (series > 0).astype(int).replace(0, -1)
SignGE(s) == AsSeq([i \in 1..Len(s) |-> IF s[i] >= 0 THEN 1 ELSE -1])
Sign(s) == AsSeq([i \in 1..Len(s) |-> IF s[i] > 0 THEN 1 ELSE -1])

\* group = (sign != sign.shift()).cumsum(); the shifted series has no value
\* at the first index, so the first comparison is always "different"
Group(sign) ==
    AsSeq([i \in 1..Len(sign) |->
        Cardinality({j \in 1..i : j = 1 \/ sign[j] # sign[j - 1]})])

\* sign.groupby([group, sign]).cumcount(): the number of earlier rows that
\* carry the same (group, sign) key
CumCount(group, sign) ==
    AsSeq([i \in 1..Len(sign) |->
        Cardinality({j \in 1..(i - 1) :
                        group[j] = group[i] /\ sign[j] = sign[i]})])

calculate_streak_Unsigned(s) ==
    LET sign == Sign(s)
        group == Group(sign)
        cumcount == CumCount(group, sign)
    IN  AsSeq([i \in 1..Len(s) |-> cumcount[i] + 1])
calculate_streak(s) ==
    LET sign == Sign(s)
        group == Group(sign)
        cumcount == CumCount(group, sign)
        counts == AsSeq([i \in 1..Len(s) |-> cumcount[i] + 1])
    IN  AsSeq([i \in 1..Len(s) |-> sign[i] * counts[i]])

\* ----------------------------------------------------------- get_scalar
\* The argument is a one-element Series; a missing (NaN) element is the empty
\* sequence.  NaN gives 0, otherwise the element itself (.item()).
get_scalar(series_val) ==
    IF series_val = <<>> THEN 0 ELSE series_val[1]

\* ------------------------------------------------------ numeric helpers
\* int(x) for the rational x = num / den, den > 0: truncation toward zero
PyIntRound(num, den) ==
    IF num >= 0 THEN (2 * num + den) \div (2 * den)
    ELSE -((2 * (-num) + den) \div (2 * den))
PyInt(num, den) ==
    IF num >= 0 THEN num \div den ELSE -((-num) \div den)

RECURSIVE SumRange(_, _, _)
SumRange(s, lo, hi) ==
    IF lo > hi THEN 0 ELSE s[hi] + SumRange(s, lo, hi - 1)

\* rolling(window = w, min_periods = 1): the window at index i holds the
\* trailing min(w, i) values
RollingCount(i, w) == IF i < w THEN i ELSE w
RollingSum(s, i, w) == SumRange(s, i - RollingCount(i, w) + 1, i)

\* (s - s.rolling(w, min_periods = 1).mean()), each element multiplied by
\* the count of its window
MeanDiff(s, w) ==
    AsSeq([i \in 1..Len(s) |-> s[i] * RollingCount(i, w) - RollingSum(s, i, w)])

\* ------------------------------------------------- analyze_single_stock
\* column of a frame
Column(frame, col) == AsSeq([i \in 1..Len(frame) |-> frame[i][col]])

\* frame[col].iloc[-k]; raises IndexError when the frame has fewer than k rows
ILocRaises(frame, k) == k > Len(frame)
ILocBack(frame, col, k) == frame[Len(frame) - k + 1][col]

\* df[['Close']].resample('ME').last(): one row per calendar month from the
\* first to the last month of the frame, the last close of that month
ResampleLast(frame) ==
    LET first == frame[1].Month
        n == Last(frame).Month - first + 1
        rows(m) == {i \in 1..Len(frame) : frame[i].Month = m}
        lastRow(m) == CHOOSE i \in rows(m) : \A j \in rows(m) : j <= i
    IN  AsSeq([k \in 1..n |-> frame[lastRow(first + k - 1)].Close])

None == <<>>

\* the try block reads iloc[-1], iloc[-2] and iloc[-3]; except IndexError
TailReadRaisesLong(frame) == \E k \in 1..(TailBars + 1) : ILocRaises(frame, k)
TailReadRaises(frame) == \E k \in 1..TailBars : ILocRaises(frame, k)

\* volume_ratio: 0 unless volume_1 > 0
VolumeRatioNoScale(volume_0, volume_1) ==
    IF volume_1 > 0 THEN PyInt(volume_0, volume_1) ELSE 0
VolumeRatio(volume_0, volume_1) ==
    IF volume_1 > 0 THEN PyInt(volume_0 * 100, volume_1) ELSE 0

\* the flag and the count emitted for one streak column
StreakPairAbs(series_val) ==
    <<IF get_scalar(series_val) > 0 THEN 1 ELSE -1, Abs(get_scalar(series_val))>>
StreakPair(series_val) ==
    <<IF get_scalar(series_val) > 0 THEN 1 ELSE -1, get_scalar(series_val)>>

analyze_single_stock(company_code, company_name, frame) ==
    IF frame = <<>> THEN None
    ELSE IF TailReadRaises(frame) THEN None
    ELSE
        LET price == ILocBack(frame, "Close", 1)
            volume_0 == ILocBack(frame, "Volume", 1)
            volume_1 == ILocBack(frame, "Volume", 2)
            volume_2 == ILocBack(frame, "Volume", 3)
            month == ResampleLast(frame)
            streak_20m == calculate_streak(MeanDiff(month, WindowMonth20))
            close == Column(frame, "Close")
            streak_20d == calculate_streak(MeanDiff(close, WindowDay20))
            streak_7d == calculate_streak(MeanDiff(close, WindowDay7))
            volume_ratio == VolumeRatio(volume_0, volume_1)
            m20 == StreakPair(<<Last(streak_20m)>>)
            d20 == StreakPair(<<Last(streak_20d)>>)
            d7 == StreakPair(<<Last(streak_7d)>>)
        IN  <<[code |-> company_code, name |-> company_name,
               price |-> PyInt(price, PriceScale),
               month20_flag |-> m20[1], month20 |-> m20[2],
               day20_flag |-> d20[1], day20 |-> d20[2],
               day7_flag |-> d7[1], day7 |-> d7[2],
               volume_0 |-> volume_0, volume_1 |-> volume_1,
               volume_2 |-> volume_2,
               volume_ratio |-> volume_ratio, date |-> "today"]>>

\* ------------------------------------------------------ bounded frames
\* month numbers of n consecutive trading days: non-decreasing, starting in
\* month 1, at most MaxMonths months, no month without a trading day
MonthSeqs(n) ==
    {[i \in 1..n |-> 1 + Cardinality({b \in B : b <= i})] :
        B \in {X \in SUBSET (2..n) : Cardinality(X) <= MaxMonths - 1}}

\* volumes of n days; only the last TailBars volumes are ever read, the
\* earlier ones are held at 1
VolumeSeqs(n) ==
    IF n <= TailBars THEN [1..n -> VolumeValues]
    ELSE {[i \in 1..n |-> IF i <= n - TailBars THEN 1 ELSE t[i - (n - TailBars)]] :
             t \in [1..TailBars -> VolumeValues]}

Frame(n, c, v, m) ==
    AsSeq([i \in 1..n |-> [Close |-> c[i], Volume |-> v[i], Month |-> m[i]]])

\* ----------------------------------------------------------- SpecStreak
StreakIdle ==
    /\ df = <<>> /\ result = <<>> /\ analyzed = FALSE
    /\ pc = "off" /\ file = [status |-> "missing", rows |-> <<>>]
    /\ df_tickers = [isNone |-> TRUE, rows |-> <<>>]
    /\ idx = 0 /\ all_results = <<>> /\ fetched = <<>>
    /\ exception = "none" /\ saveCalls = <<>> /\ putCalls = <<>>

InitStreak ==
    /\ series \in SeqsUpTo(DiffValues, 1, MaxDiffLen)
    /\ streak = <<>>
    /\ computed = FALSE
    /\ StreakIdle

CalcStreak ==
    /\ ~computed
    /\ streak' = calculate_streak(series)
    /\ computed' = TRUE
    /\ UNCHANGED <<series, stockVars, mainVars>>

NextStreak == CalcStreak

SpecStreak == InitStreak /\ [][NextStreak]_vars

\* C1: at every index i the streak is sign[i] * length[i], where sign is +1
\* for a positive difference and -1 otherwise (zero included), length is 1 at
\* the first index and after a sign flip, and the previous length + 1 while
\* the sign persists.
RECURSIVE RunLength(_, _)
RunLength(s, i) ==
    IF i = 1 THEN 1
    ELSE IF (s[i] > 0) = (s[i - 1] > 0) THEN RunLength(s, i - 1) + 1
    ELSE 1

C1_StreakIsSignedRunLength ==
    computed =>
        /\ Len(streak) = Len(series)
        /\ \A i \in 1..Len(series) :
              streak[i] = (IF series[i] > 0 THEN 1 ELSE -1) * RunLength(series, i)

\* a zero difference continuing a negative run, and a flip resetting to 1
C1_Witness ==
    /\ computed
    /\ \E i \in 2..Len(series) :
          /\ series[i] = 0 /\ series[i - 1] < 0 /\ streak[i] = streak[i - 1] - 1
    /\ \E i \in 2..Len(series) :
          /\ series[i] > 0 /\ series[i - 1] <= 0 /\ streak[i] = 1


\* ------------------------------------------------------------ SpecStock
StockIdle ==
    /\ series = <<>> /\ streak = <<>> /\ computed = FALSE
    /\ pc = "off" /\ file = [status |-> "missing", rows |-> <<>>]
    /\ df_tickers = [isNone |-> TRUE, rows |-> <<>>]
    /\ idx = 0 /\ all_results = <<>> /\ fetched = <<>>
    /\ exception = "none" /\ saveCalls = <<>> /\ putCalls = <<>>

InitStock ==
    /\ \E n \in 0..MaxBars :
          \E c \in [1..n -> CloseValues], v \in VolumeSeqs(n), m \in MonthSeqs(n) :
              df = Frame(n, c, v, m)
    /\ result = None
    /\ analyzed = FALSE
    /\ StockIdle

Analyze ==
    /\ ~analyzed
    /\ result' = analyze_single_stock(1, 1, df)
    /\ analyzed' = TRUE
    /\ UNCHANGED <<df, streakVars, mainVars>>

NextStock == Analyze

SpecStock == InitStock /\ [][NextStock]_vars

Emitted == analyzed /\ result # None
Rec == result[1]

LastStreak20m(frame) ==
    Last(calculate_streak(MeanDiff(ResampleLast(frame), WindowMonth20)))
LastStreak20d(frame) ==
    Last(calculate_streak(MeanDiff(Column(frame, "Close"), WindowDay20)))
LastStreak7d(frame) ==
    Last(calculate_streak(MeanDiff(Column(frame, "Close"), WindowDay7)))

\* C4 (as stated): each streak pair is (direction, abs(s)); the length field
\* is the magnitude, at least 1 and never negative.
C4_LengthIsMagnitude ==
    Emitted =>
        /\ Rec.month20 = Abs(LastStreak20m(df)) /\ Rec.month20 >= 1
        /\ Rec.day20 = Abs(LastStreak20d(df)) /\ Rec.day20 >= 1
        /\ Rec.day7 = Abs(LastStreak7d(df)) /\ Rec.day7 >= 1

\* C4 (amended): each streak pair is (direction, s): the direction is +1 for a
\* positive s and -1 otherwise, and the length field is the signed streak s
\* itself, negative exactly when the direction is -1, of magnitude >= 1.
SignedPair(flag, len, s) ==
    /\ flag = (IF s > 0 THEN 1 ELSE -1)
    /\ len = s
    /\ Abs(len) >= 1
    /\ (flag = -1) <=> (len < 0)

C4_LengthIsSignedStreak ==
    Emitted =>
        /\ SignedPair(Rec.month20_flag, Rec.month20, LastStreak20m(df))
        /\ SignedPair(Rec.day20_flag, Rec.day20, LastStreak20d(df))
        /\ SignedPair(Rec.day7_flag, Rec.day7, LastStreak7d(df))

C4_Witness ==
    /\ Emitted
    /\ Rec.day20_flag = -1 /\ Rec.day20 <= -2
    /\ Rec.month20_flag = -1 /\ Rec.month20 = -2
    /\ Rec.day7_flag = -1 /\ Rec.day7 <= -2

\* C8 (as stated): price is the last close rounded to the nearest integer.
C8_PriceIsRounded ==
    Emitted =>
        2 * Abs(Rec.price * PriceScale - Last(df).Close) <= PriceScale

\* C8 (amended): price is int(close[-1]): the last close truncated toward
\* zero, so a fractional part above one half is cut off.
C8_PriceIsTruncated ==
    Emitted =>
        /\ Rec.price * PriceScale <= Last(df).Close
        /\ Last(df).Close < (Rec.price + 1) * PriceScale

C8_Witness ==
    /\ Emitted
    /\ 2 * (Last(df).Close % PriceScale) > PriceScale
    /\ Rec.price = Last(df).Close \div PriceScale

\* C10: the streak at the first index of any (close - rolling mean) series
\* is -1, and a frame of >= 3 bars lying in one calendar month is emitted
\* with month20 direction -1 and a streak of one period.
OneMonth(frame) == \A i \in 1..Len(frame) : frame[i].Month = frame[1].Month

TickerRows(n) == [i \in 1..n |-> [code |-> i, name |-> i]]

TickerFiles ==
    {[status |-> "ok", rows |-> TickerRows(n)] : n \in 0..MaxTickers}
    \cup {[status |-> "missing", rows |-> <<>>]}
    \cup {[status |-> "unreadable", rows |-> TickerRows(n)] : n \in 1..MaxTickers}

\* load_tickers: the frame of rows; None on FileNotFoundError; any other
\* error of read_csv is not caught and leaves the function as an exception
load_tickers_Unchecked(f) ==
    [raised |-> FALSE, isNone |-> FALSE, rows |-> f.rows]
load_tickers(f) ==
    IF f.status = "ok" THEN [raised |-> FALSE, isNone |-> FALSE, rows |-> f.rows]
    ELSE IF f.status = "missing" THEN [raised |-> FALSE, isNone |-> TRUE, rows |-> <<>>]
    ELSE [raised |-> TRUE, isNone |-> TRUE, rows |-> <<>>]

\* what yf.download gives for one ticker: it raises, or it returns a frame
\* (empty when the provider has no data)
ConstFrame(n, c) == AsSeq([i \in 1..n |-> [Close |-> c, Volume |-> 1, Month |-> 1]])

FetchOutcomes ==
    {[raised |-> TRUE, bars |-> <<>>]}
    \cup {[raised |-> FALSE, bars |-> ConstFrame(n, c)] :
             n \in 0..BatchBars, c \in CloseValues}

\* if result: all_results.append(result)
CollectFront(results, res) ==
    IF res # None THEN <<res[1]>> \o results ELSE results
Collect(results, res) ==
    IF res # None THEN Append(results, res[1]) ELSE results

\* if not all_results: return
NoResultsNever(results) == FALSE
NoResults(results) == results = <<>>

Init ==
    /\ pc = "start"
    /\ file \in TickerFiles
    /\ df_tickers = [isNone |-> TRUE, rows |-> <<>>]
    /\ idx = 0
    /\ all_results = <<>>
    /\ fetched = <<>>
    /\ exception = "none"
    /\ saveCalls = <<>>
    /\ putCalls = <<>>
    /\ series = <<>> /\ streak = <<>> /\ computed = FALSE
    /\ df = <<>> /\ result = None /\ analyzed = FALSE

\* main, step 2: load the ticker list; return when it is None
LoadTickers ==
    /\ pc = "start"
    /\ LET r == load_tickers(file)
       IN  \/ /\ r.raised
              /\ exception' = "load"
              /\ pc' = "done"
              /\ UNCHANGED <<df_tickers, idx>>
           \/ /\ ~r.raised /\ r.isNone
              /\ pc' = "done"
              /\ UNCHANGED <<df_tickers, idx, exception>>
           \/ /\ ~r.raised /\ ~r.isNone
              /\ df_tickers' = [isNone |-> FALSE, rows |-> r.rows]
              /\ idx' = 1
              /\ pc' = "loop"
              /\ UNCHANGED exception
    /\ UNCHANGED <<file, all_results, fetched, saveCalls, putCalls,
                   streakVars, stockVars>>

\* main, step 3: one iteration of the loop over the rows.  The download
\* inside analyze_single_stock and the computation after it run outside any
\* handler but the IndexError one, so a raise leaves main.
ProcessTicker ==
    /\ pc = "loop"
    /\ idx <= Len(df_tickers.rows)
    /\ \E f \in FetchOutcomes :
          /\ fetched' = Append(fetched, f)
          /\ \/ /\ f.raised
                /\ exception' = "fetch"
                /\ pc' = "done"
                /\ UNCHANGED <<idx, all_results>>
             \/ /\ ~f.raised
                /\ LET row == df_tickers.rows[idx]
                       res == analyze_single_stock(row.code, row.name, f.bars)
                   IN  all_results' = Collect(all_results, res)
                /\ idx' = idx + 1
                /\ UNCHANGED <<pc, exception>>
    /\ UNCHANGED <<file, df_tickers, saveCalls, putCalls, streakVars, stockVars>>

\* main, step 4, with save_to_s3: nothing to upload ends the run; otherwise
\* the table goes to save_to_s3, which reads the credentials and calls
\* put_object, reporting (not raising) any failure
FinishRun ==
    /\ pc = "loop"
    /\ idx > Len(df_tickers.rows)
    /\ \/ /\ NoResults(all_results)
          /\ UNCHANGED <<saveCalls, putCalls>>
       \/ /\ ~NoResults(all_results)
          /\ saveCalls' = Append(saveCalls, all_results)
          /\ \E env \in {"ok", "no_credentials", "put_fails"} :
                putCalls' = IF env = "no_credentials" THEN putCalls
                            ELSE Append(putCalls, all_results)
    /\ pc' = "done"
    /\ UNCHANGED <<file, df_tickers, idx, all_results, fetched, exception,
                   streakVars, stockVars>>

Next == LoadTickers \/ ProcessTicker \/ FinishRun

Spec == Init /\ [][Next]_vars

\* the rows the universe should have produced after its first k tickers:
\* one per ticker whose fetch returned at least 3 bars, in file order
RECURSIVE ExpectedTable(_)
ExpectedTable(k) ==
    IF k = 0 THEN <<>>
    ELSE LET row == df_tickers.rows[k]
             prev == ExpectedTable(k - 1)
         IN  IF ~fetched[k].raised /\ Len(fetched[k].bars) >= 3
             THEN Append(prev,
                         analyze_single_stock(row.code, row.name, fetched[k].bars)[1])
             ELSE prev

Codes(table) == [i \in 1..Len(table) |-> table[i].code]

NoRaise == \A k \in 1..Len(fetched) : ~fetched[k].raised

\* C5: with every ticker ending in a record or a skip, the table handed to
\* the sink is the records of the producing tickers in file order; a skip
\* adds no row, changes no row, and the loop goes on to the last ticker.
C5_TableIsOrderedSubsequence ==
    /\ (pc = "loop" /\ NoRaise) =>
          /\ Len(fetched) = idx - 1
          /\ all_results = ExpectedTable(idx - 1)
    /\ (pc = "done" /\ ~df_tickers.isNone /\ NoRaise) =>
          /\ Len(fetched) = Len(df_tickers.rows)
          /\ ExpectedTable(Len(fetched)) # <<>> =>
                saveCalls = <<ExpectedTable(Len(fetched))>>
    /\ \A k \in 1..Len(saveCalls) :
          saveCalls[k] = ExpectedTable(Len(df_tickers.rows))

C5_Witness ==
    /\ pc = "done"
    /\ Len(fetched) = 3
    /\ fetched[2] = [raised |-> FALSE, bars |-> <<>>]
    /\ Len(saveCalls) = 1
    /\ Codes(saveCalls[1]) = <<1, 3>>

\* C6 (as stated): a raise of the fetch or of the computation for one ticker
\* is a skip: no exception leaves the loop, every ticker is processed and a
\* run with records reaches the sink.
C6_NoExceptionCrossesTicker ==
    (pc = "done" /\ ~df_tickers.isNone) =>
        /\ exception = "none"
        /\ idx = Len(df_tickers.rows) + 1
        /\ all_results # <<>> => saveCalls # <<>>

\* C7: a run whose result list is empty never calls save_to_s3 or put_object.
C7_EmptyResultsNeverReachSink ==
    all_results = <<>> => (saveCalls = <<>> /\ putCalls = <<>>)

C7_Witness ==
    /\ pc = "done"
    /\ exception = "none"
    /\ Len(df_tickers.rows) >= 2
    /\ Len(fetched) = Len(df_tickers.rows)
    /\ all_results = <<>>
    /\ saveCalls = <<>> /\ putCalls = <<>>

\* C9: when the ticker list is missing or unreadable no fetch is issued, the
\* loop is never entered and the sink is never invoked.
C9_NoListNoProcessing ==
    file.status # "ok" =>
        /\ fetched = <<>>
        /\ pc \in {"start", "done"}
        /\ saveCalls = <<>> /\ putCalls = <<>>

C9_Witness ==
    /\ pc = "done"
    /\ file.status = "missing"
    /\ df_tickers.isNone
    /\ fetched = <<>> /\ saveCalls = <<>>

====
